---- MODULE Spec2Model ----
(***************************************************************************)
(* A model of src/src/utils.js: the M64 wide-integer helpers, the PRNG     *)
(* (xorshift128+ family) and the Maze terrain engine.                      *)
(*                                                                         *)
(* A 32-bit word is modelled by the set of its set bit positions (a subset *)
(* of 0..31), so that every JavaScript bitwise operator keeps its full     *)
(* width: ^ is the symmetric difference, << and >> move positions, and     *)
(* (a + b) >>> 0 is a ripple-carry addition that drops the carry out of    *)
(* bit 31.  A WideWord is the pair <<first, second>> of the JavaScript     *)
(* array [aH, aL].                                                         *)
(***************************************************************************)
EXTENDS Integers, Sequences, FiniteSets, TLC

VARIABLES
    wa, wb, wl, wr, wop,    \* M64: operands, shift amount, result, operation applied
    rngs,                   \* the PRNG objects: object number -> [s0, s1]
    outs,                   \* per PRNG object, the values its rand64 calls returned
    base,                   \* per PRNG object, how it was built and from which object
    recovered,              \* what the last recover() returned, and of which object
    arr, arrProps,          \* the array handed to pick: elements, and extra property names
    items,                  \* the array as it was before the first pick
    picked,                 \* the values pick returned, in order
    maze,                   \* the Maze object the calls are made on
    mpc,                    \* where a running make stands: "idle", "start", "carve"
    mx, my,                 \* make's x and y
    frontier,               \* make's frontier
    before, last,           \* this.data before the last call on maze, and that call
    parts,                  \* what the last split returned
    gpc,                    \* where a running generate stands
    gargs,                  \* generate's arguments
    cross,                  \* generate's cross
    results                 \* what the generate calls returned, in order

M64Vars == <<wa, wb, wl, wr, wop>>
PrngVars == <<rngs, outs, base, recovered>>
PickVars == <<arr, arrProps, items, picked>>
MazeVars == <<maze, mpc, mx, my, frontier, before, last, parts>>
GenVars == <<gpc, gargs, cross, results>>

vars == <<M64Vars, PrngVars, PickVars, MazeVars, GenVars>>

\* what an operation on one group of objects leaves alone
NotM64 == <<PrngVars, PickVars, MazeVars, GenVars>>
NotPrng == <<M64Vars, PickVars, MazeVars, GenVars>>
NotPick == <<M64Vars, MazeVars, GenVars>>
NotMaze == <<outs, base, recovered, M64Vars, PickVars>>

----------------------------------------------------------------------------
\* F applied to the value of e: e is evaluated once, before F's body
Bind(e, F(_)) == CHOOSE r \in {F(v) : v \in {e}} : TRUE

RECURSIVE FoldRange(_, _, _, _)
\* Step(... Step(Step(acc, lo), lo + 1) ..., hi): a loop over lo..hi, each
\* intermediate value computed once
FoldRange(Step(_, _), acc, lo, hi) ==
    IF lo > hi THEN acc
    ELSE IF lo = hi THEN Step(acc, lo)
    ELSE LET mid == (lo + hi) \div 2
         IN  Bind(FoldRange(Step, acc, lo, mid),
                  LAMBDA v : FoldRange(Step, v, mid + 1, hi))

----------------------------------------------------------------------------
(* 32-bit words as bit sets                                                *)

Bits32 == 0..31

\* the bit set of a natural number below 2^31
FromNat(n) == {i \in 0..30 : (n \div 2^i) % 2 = 1}

\* JavaScript a << n on int32 (the count is taken modulo 32)
Shl(a, n) == {i + (n % 32) : i \in a} \cap Bits32

\* JavaScript a >> n on int32: the sign bit is copied into the vacated bits
Sar(a, n) == ({i - (n % 32) : i \in a} \cap Bits32)
                \cup (IF 31 \in a THEN (32 - (n % 32))..31 ELSE {})

\* JavaScript a >>> n
Shr(a, n) == {i - (n % 32) : i \in a} \cap Bits32

\* JavaScript a | b and a ^ b
Or(a, b) == a \cup b
Xor(a, b) == (a \ b) \cup (b \ a)

RECURSIVE Val(_, _, _)
\* the number whose bits lo..hi are the members of a in lo..hi, counted from lo
Val(a, lo, hi) ==
    IF lo = hi THEN (IF lo \in a THEN 1 ELSE 0)
    ELSE LET mid == (lo + hi) \div 2
         IN  Val(a, lo, mid) + 2^(mid + 1 - lo) * Val(a, mid + 1, hi)

\* the k-th 16-bit limb of a bit set, as a number, and back
Limb(a, k) == Val(a, 16 * k, 16 * k + 15)
LimbBits(n, k) == {16 * k + i : i \in {j \in 0..15 : (n \div 2^j) % 2 = 1}}

RECURSIVE AddLimbs(_, _, _, _, _)
AddLimbs(a, b, k, c, n) ==
    IF k = n THEN {} ELSE
    LET t == Limb(a, k) + Limb(b, k) + c
    IN  LimbBits(t % 65536, k) \cup AddLimbs(a, b, k + 1, t \div 65536, n)

\* (a + b) modulo 2^w on bit sets, w a multiple of 16
AddBits(a, b, w) == AddLimbs(a, b, 0, 0, w \div 16)

\* the unsigned value of word a, modulo the small positive number n
ModN(a, n) == ((Limb(a, 1) % n) * (65536 % n) + Limb(a, 0)) % n

----------------------------------------------------------------------------
(* class M64                                                               *)

\* [(aH + bH) >>> 0, (aL + bL) >>> 0]
add64(a, b) == <<AddBits(a[1], b[1], 32), AddBits(a[2], b[2], 32)>>

\* [aH ^ bH, aL ^ bL]
xor64(a, b) == <<Xor(a[1], b[1]), Xor(a[2], b[2])>>

\* l > 0: [aH >> l, (aH << (32 - l)) | (aL >> l)]
\* l < 0: [(aH << -l) | (aL >> (32 + l)), aL << -l]
\* l = 0: the arguments object, whose element 0 is the array and element 1 is l
shift64(a, l) ==
    IF l > 0 THEN <<Sar(a[1], l), Or(Shl(a[1], 32 - l), Sar(a[2], l))>>
    ELSE IF l < 0 THEN <<Or(Shl(a[1], -l), Sar(a[2], 32 + l)), Shl(a[2], -l)>>
    ELSE <<a, l>>

\* [(x - rem) / y, rem] with rem = x % y, on non-negative x and positive y
divmod(x, y) == <<(x - (x % y)) \div y, x % y>>

----------------------------------------------------------------------------
(* class PRNG.  A string is the sequence of its character codes.           *)

\* a word from its two 16-bit halves, given as numbers
Word16(hi, lo) == LimbBits(lo, 0) \cup LimbBits(hi, 1)

\* the exact product of two 16-bit numbers, as <<product \div 2^16, product % 2^16>>
Mul16(a, b) ==
    LET q == a * (b \div 256)
        r == a * (b % 256)
        t == (q % 256) * 256 + r
    IN  <<(q \div 256) + (t \div 65536), t % 65536>>

\* mul32(a, b)[1]: aL * bL + (c << 16), with c = aH * bL + aL * bH.  The sum is
\* a JavaScript number that need not fit 32 bits; every use converts it with
\* ToInt32, which is the truncation to 32 bits made here.  c << 16 keeps the
\* low 16 bits of c, moved to the high half.
imul32(a, b) ==
    LET aH == Limb(a, 1)  aL == Limb(a, 0)
        bH == Limb(b, 1)  bL == Limb(b, 0)
        c16 == (Mul16(aH, bL)[2] + Mul16(aL, bH)[2]) % 65536
        ll == Mul16(aL, bL)
    IN  Word16((ll[1] + c16) % 65536, ll[2])

HashInit == 1779033703

\* 3432918353 = 0xCC9E2D51
HashMul == Word16(52382, 11601)

\* one round of the loop of hash32 on character code c:
\* hash = imul32(hash ^ c, 3432918353); hash = (hash << 13) | (hash >>> 19)
HashStep(hash, c) ==
    Bind(imul32(Xor(hash, FromNat(c)), HashMul), LAMBDA h : Or(Shl(h, 13), Shr(h, 19)))

\* hash = 1779033703 ^ str.length, then one round per character
hash32(str) ==
    FoldRange(LAMBDA h, i : HashStep(h, str[i]),
              Xor(FromNat(HashInit), FromNat(Len(str))), 1, Len(str))

\* the int32 value of a word
ToSigned(a) ==
    IF 31 \in a THEN (Limb(a, 1) - 65536) * 65536 + Limb(a, 0)
    ELSE Limb(a, 1) * 65536 + Limb(a, 0)

RECURSIVE Digits(_)
\* the decimal digits (character codes) of n >= 0
Digits(n) == IF n < 10 THEN <<48 + n>> ELSE Append(Digits(n \div 10), 48 + (n % 10))

\* Number.prototype.toString of an int32, as character codes
NumToString(v) ==
    IF v >= 0 THEN Digits(v) ELSE
    LET low == (10 - (v % 10)) % 10
        rest == -((v + low) \div 10)
    IN  <<45>> \o (IF rest = 0 THEN <<>> ELSE Digits(rest)) \o <<48 + low>>

\* nL = hash32(str), nH = hash32(nL + str); returns [nL, nH]
hash64(str) ==
    LET nL == hash32(str)
        nH == hash32(NumToString(ToSigned(nL)) \o str)
    IN  <<nL, nH>>

\* Array.prototype.toString of a two-element array of int32
PairToString(p) == NumToString(ToSigned(p[1])) \o <<44>> \o NumToString(ToSigned(p[2]))

\* PRNG.from(seed): s0 = hash64(seed), s1 = hash64(s0 + seed)
from(seed) ==
    LET s0 == hash64(seed)
    IN  [s0 |-> s0, s1 |-> hash64(PairToString(s0) \o seed)]

\* the constructor with the two state words stored in each other's place
constructorCrossed(s0, s1) == [s0 |-> <<s1[1], s1[2]>>, s1 |-> <<s0[1], s0[2]>>]

\* new PRNG([s0H, s0L], [s1H, s1L]): each argument is destructured into its first
\* two elements
constructor(s0, s1) == [s0 |-> <<s0[1], s0[2]>>, s1 |-> <<s1[1], s1[2]>>]

\* recover(): [this.s0, this.s1]
recover(g) == <<g.s0, g.s1>>

\* rand64(): the generator after the call (self) and the value returned (ret)
rand64(g) ==
    LET y  == g.s1
        x  == xor64(g.s0, shift64(g.s0, -23))
        n1 == xor64(xor64(x, y), xor64(shift64(x, 17), shift64(y, 26)))
    IN  [self |-> [s0 |-> g.s1, s1 |-> n1], ret |-> add64(n1, y)]

\* rand32(): this.rand64()[0]
rand32(g) == Bind(rand64(g), LAMBDA r : [self |-> r.self, ret |-> r.ret[1]])

\* the value undefined
Undefined == [undefined |-> TRUE]

\* copy(): Object.assign(new PRNG(), this) copies the properties s0 and s1
copy(g) == [s0 |-> g.s0, s1 |-> g.s1]

\* pick without the move of the last element into the picked place
pickNoMove(g, array) ==
    Bind(rand32(g), LAMBDA r :
        LET n == Len(array)
        IN  IF n = 0
            THEN [self |-> r.self, ret |-> Undefined, array |-> array, props |-> {"NaN"}]
            ELSE [self  |-> r.self,
                  ret   |-> array[ModN(r.ret, n) + 1],
                  array |-> SubSeq(array, 1, n - 1),
                  props |-> {}])

\* pick(array): index = rand32() % array.length; the last element takes the place
\* of the picked one unless the picked one is the last.  On an empty array the
\* index is NaN: array[NaN] is undefined, and array[NaN] = array.pop() stores
\* undefined under the property name "NaN".
pick(g, array) ==
    Bind(rand32(g), LAMBDA r :
        LET n == Len(array)
        IN  IF n = 0
            THEN [self |-> r.self, ret |-> Undefined, array |-> array, props |-> {"NaN"}]
            ELSE Bind(ModN(r.ret, n), LAMBDA index :
                    LET init == SubSeq(array, 1, n - 1)
                    IN  [self  |-> r.self,
                         ret   |-> array[index + 1],
                         array |-> IF index # n - 1
                                   THEN [init EXCEPT ![index + 1] = array[n]]
                                   ELSE init,
                         props |-> {}]))

----------------------------------------------------------------------------
(* class Maze.  A Maze object is the record [X, Y, RNG, isWall, data]:     *)
(* data is the array of rows (data[y + 1][x + 1] is this.data[y][x]), RNG  *)
(* the reference it holds, isWall the closure it holds, given by its kind  *)
(* and captured values.                                                    *)

\* the direction tables (lines 15, 19, 23); the keys iterate in this order
Cardinals == <<"TOP", "RIGHT", "BOTTOM", "LEFT">>
AllDirs == <<"TOP", "TOP_RIGHT", "RIGHT", "BOTTOM_RIGHT",
             "BOTTOM", "BOTTOM_LEFT", "LEFT", "TOP_LEFT">>

dxdy(dir) ==
    CASE dir = "TOP"          -> <<0, -1>>
      [] dir = "TOP_RIGHT"    -> <<1, -1>>
      [] dir = "RIGHT"        -> <<1, 0>>
      [] dir = "BOTTOM_RIGHT" -> <<1, 1>>
      [] dir = "BOTTOM"       -> <<0, 1>>
      [] dir = "BOTTOM_LEFT"  -> <<-1, 1>>
      [] dir = "LEFT"         -> <<-1, 0>>
      [] dir = "TOP_LEFT"     -> <<-1, -1>>

\* dudv holds the same deltas for the four cardinal directions
dudv(dir) == dxdy(dir)

opposite(dir) ==
    CASE dir = "TOP"          -> "BOTTOM"
      [] dir = "TOP_RIGHT"    -> "BOTTOM_LEFT"
      [] dir = "RIGHT"        -> "LEFT"
      [] dir = "BOTTOM_RIGHT" -> "TOP_LEFT"
      [] dir = "BOTTOM"       -> "TOP"
      [] dir = "BOTTOM_LEFT"  -> "TOP_RIGHT"
      [] dir = "LEFT"         -> "RIGHT"
      [] dir = "TOP_LEFT"     -> "BOTTOM_RIGHT"

\* Maze.isEdge(X, Y)(x, y): x++ <= 0 || x >= X || y++ <= 0 || y >= Y
isEdge(X, Y, x, y) == x <= 0 \/ x + 1 >= X \/ y <= 0 \/ y + 1 >= Y

\* the values look returns: 0.3, true, false, undefined
Wall03 == "0.3"
JsTrue == "true"
JsFalse == "false"
JsUndefined == "undefined"

\* (this.data[y] || [])[x]
DataAt(data, x, y) ==
    IF y >= 0 /\ y < Len(data) /\ x >= 0 /\ x < Len(data[y + 1])
    THEN (IF data[y + 1][x + 1] THEN JsTrue ELSE JsFalse)
    ELSE JsUndefined

\* the closure a Maze holds as isWall, applied to (x, y):
\*  "isEdge"   the default Maze.isEdge(X, Y) of the constructor (line 176)
\*  "isWall"   the closure generate builds (lines 157-166) over cross,
\*             isEdge = Maze.isEdge(X, Y) and isOut = Maze.isEdge(nX * X, nY * Y)
IsWallAt(w, x, y) ==
    CASE w.kind = "isEdge"  -> isEdge(w.X, w.Y, x, y)
      [] w.kind = "isWall"  ->
            IF isEdge(w.nX * w.X, w.nY * w.Y, x, y) THEN TRUE
            ELSE LET dx == divmod(x, w.X)
                     dy == divmod(y, w.Y)
                     rx == dx[2]
                     ry == dy[2]
                     ex == isEdge(w.X, w.Y, rx, rx)
                     ey == isEdge(w.X, w.Y, ry, ry)
                     wx == dx[1] * 2 + (IF ex THEN (IF rx # 0 THEN 1 ELSE -1) ELSE 0) + 1
                     wy == dy[1] * 2 + (IF ey THEN (IF ry # 0 THEN 1 ELSE -1) ELSE 0) + 1
                 IN  IF ~isEdge(w.X, w.Y, rx, ry) THEN FALSE
                     ELSE IF ex /\ ey THEN TRUE
                     ELSE \* !cross.look(wx, wy), cross having the default isEdge
                          LET c == IF isEdge(2 * w.nX + 1, 2 * w.nY + 1, wx, wy)
                                   THEN Wall03 ELSE DataAt(w.cross, wx, wy)
                          IN  c \in {JsFalse, JsUndefined}

\* look(x, y)
look(m, x, y) == IF IsWallAt(m.isWall, x, y) THEN Wall03 ELSE DataAt(m.data, x, y)

\* value ? Number(value) : 0, in tenths
Tenths(value) == IF value = JsTrue THEN 10 ELSE IF value = Wall03 THEN 3 ELSE 0

RECURSIVE SumTenths(_, _, _, _, _)
SumTenths(m, x, y, set, k) ==
    IF k > Len(set) THEN 0
    ELSE Tenths(look(m, x + dxdy(set[k])[1], y + dxdy(set[k])[2]))
            + SumTenths(m, x, y, set, k + 1)

\* count(x, y, set), in tenths
count(m, x, y, set) == SumTenths(m, x, y, set, 1)

\* the array of the values f(1) .. f(n)
Build(n, f(_)) == FoldRange(LAMBDA acc, k : Append(acc, f(k)), <<>>, 1, n)

\* the rows of data rewritten cell by cell by f(x, y, v)
MapData(data, f(_, _, _)) ==
    Build(Len(data), LAMBDA yy :
        Build(Len(data[yy]), LAMBDA xx : f(xx - 1, yy - 1, data[yy][xx])))

\* the cell rule of trim, for a round that does not go through trimCell
trimCellGuarded(m, x, y, v) == IF v THEN count(m, x, y, Cardinals) >= 20 ELSE FALSE

\* a trim cell that asks the neighbours of closed cells too
trimCellAll(m, x, y, v) == count(m, x, y, Cardinals) >= 20

\* a round of trim that writes each new value into this.data at once, so that
\* the cells after it in the row and the rows below read it
trimRoundInPlace(m) ==
    LET w == IF Len(m.data) = 0 THEN 0 ELSE Len(m.data[1])
        step(mm, i) ==
            [mm EXCEPT !.data[(i \div w) + 1][(i % w) + 1] =
                trimCellGuarded(mm, i % w, i \div w, mm.data[(i \div w) + 1][(i % w) + 1])]
    IN  FoldRange(step, m, 0, Len(m.data) * w - 1)

\* one round of trim: v ? this.count(x, y) >= 2 : false
trimCell(m, x, y, v) == IF v THEN count(m, x, y, Cardinals) >= 20 ELSE FALSE
trimRound(m) == [m EXCEPT !.data = MapData(m.data, LAMBDA x, y, v : trimCell(m, x, y, v))]

\* trim(round)
trim(m, round) == FoldRange(LAMBDA mm, i : trimRound(mm), m, 1, round)

\* a grow cell that asks the neighbours of open cells too
growCellAll(m, x, y, v) == ~IsWallAt(m.isWall, x, y) /\ count(m, x, y, AllDirs) >= 40

\* one round of grow: v ? true : !this.isWall(x, y) && this.count(x, y, dxdy) >= 4
growCell(m, x, y, v) ==
    IF v THEN TRUE ELSE ~IsWallAt(m.isWall, x, y) /\ count(m, x, y, AllDirs) >= 40
growRound(m) == [m EXCEPT !.data = MapData(m.data, LAMBDA x, y, v : growCell(m, x, y, v))]

\* grow(round)
grow(m, round) == FoldRange(LAMBDA mm, i : growRound(mm), m, 1, round)

\* rand() > k / 2 and rand() < k / 2 for rand() = r / 0xffffffff, r the word
\* rand32() returned: r / 0xffffffff exceeds 1/2 exactly when bit 31 of r is set,
\* is 0 exactly when r is 0 and is 1 exactly when r is 0xffffffff
RandGreater(r, k) ==
    IF k < 0 THEN TRUE
    ELSE IF k = 0 THEN r # {}
    ELSE IF k = 1 THEN 31 \in r
    ELSE FALSE

RandLess(r, k) ==
    IF k <= 0 THEN FALSE
    ELSE IF k = 1 THEN 31 \notin r
    ELSE IF k = 2 THEN r # Bits32
    ELSE TRUE

\* the new value of one cell in loss, r being the word drawn for it and h the
\* product rate * factor(x, y) in halves:
\* value ? rand() > -rate * factor(x, y) : rand() < rate * factor(x, y)
lossCell(r, value, h) == IF value THEN RandGreater(r, -h) ELSE RandLess(r, h)

\* loss(rate, factor) with rate = rate2 / 2 and factor = () => f: the cells are
\* visited row by row, one rand() each; returns the maze and the generator
loss(m, g, rate2, f) ==
    LET w == IF Len(m.data) = 0 THEN 0 ELSE Len(m.data[1])
        n == Len(m.data) * w
        step(acc, i) ==
            Bind(rand32(acc.g), LAMBDA r :
                LET v == m.data[(i \div w) + 1][(i % w) + 1]
                IN  [g |-> r.self,
                     cells |-> Append(acc.cells, lossCell(r.ret, v, rate2 * f))])
    IN  Bind(FoldRange(step, [g |-> g, cells |-> <<>>], 0, n - 1), LAMBDA end :
            [maze |-> [m EXCEPT !.data =
                          Build(Len(m.data), LAMBDA yy :
                              SubSeq(end.cells, (yy - 1) * w + 1, yy * w))],
             rng  |-> end.g])

\* this.RNG.copy, the method itself (it is not called): a function object,
\* which has no s0 and no s1
CopyMethod == [function |-> "copy"]

\* _.slice(array, s, e)
Slice(array, s, e) == SubSeq(array, s + 1, IF e < Len(array) THEN e ELSE Len(array))

\* the number of cuts _.range(size / div) yields: the quotient rounded up
Cuts(div, size) == (size + div - 1) \div div

\* new Maze(_.head(data).length, data.length, this.RNG.copy) with data assigned
SubMaze(data) ==
    [X |-> Len(data[1]), Y |-> Len(data), RNG |-> CopyMethod,
     isWall |-> [kind |-> "isEdge", X |-> Len(data[1]), Y |-> Len(data)],
     data |-> data]

\* a split that cuts the rows by divX and the columns by divY
splitCrossed(m, divX, divY) ==
    Build(Cuts(divX, m.Y), LAMBDA j :
        LET rect == Slice(m.data, (j - 1) * divX, j * divX)
        IN  Build(Cuts(divY, m.X), LAMBDA i :
                SubMaze(Build(Len(rect), LAMBDA k :
                            Slice(rect[k], (i - 1) * divY, i * divY)))))

\* split(divX, divY): the rows are cut first, then each band of rows by columns
split(m, divX, divY) ==
    Build(Cuts(divY, m.Y), LAMBDA j :
        LET rect == Slice(m.data, (j - 1) * divY, j * divY)
        IN  Build(Cuts(divX, m.X), LAMBDA i :
                SubMaze(Build(Len(rect), LAMBDA k :
                            Slice(rect[k], (i - 1) * divX, i * divX)))))

\* expand(x, y): this.data[y][x] = true, then every cardinal direction whose cell
\* two steps away looks false is pushed on the frontier
expand(m, front, x, y) ==
    LET m1 == [m EXCEPT !.data[y + 1][x + 1] = TRUE]
        push(fr, k) ==
            LET d == dudv(Cardinals[k])
            IN  IF look(m1, x + d[1] * 2, y + d[2] * 2) = JsFalse
                THEN Append(fr, <<x + d[1] * 2, y + d[2] * 2, Cardinals[k]>>)
                ELSE fr
    IN  [maze |-> m1, frontier |-> FoldRange(push, front, 1, Len(Cardinals))]

\* a round of make that leaves the picked entry on the frontier
makeRoundKeep(m, g, front) ==
    Bind(pick(g, front), LAMBDA p :
        LET x  == p.ret[1]
            y  == p.ret[2]
            d  == dudv(opposite(p.ret[3]))
        IN  IF look(m, x, y) = JsFalse
            THEN Bind(expand([m EXCEPT !.data[y + d[2] + 1][x + d[1] + 1] = TRUE],
                             front, x, y),
                      LAMBDA e : [maze |-> e.maze, rng |-> p.self, frontier |-> e.frontier])
            ELSE [maze |-> m, rng |-> p.self, frontier |-> front])

\* a round of make that carves without looking at the picked cell
makeRoundNoLook(m, g, front) ==
    Bind(pick(g, front), LAMBDA p :
        LET x  == p.ret[1]
            y  == p.ret[2]
            d  == dudv(opposite(p.ret[3]))
        IN  Bind(expand([m EXCEPT !.data[y + d[2] + 1][x + d[1] + 1] = TRUE],
                        p.array, x, y),
                 LAMBDA e : [maze |-> e.maze, rng |-> p.self, frontier |-> e.frontier]))

\* one round of the while loop of make: pick a frontier entry; if its cell still
\* looks false, open the cell between it and the cell it was pushed from, and
\* expand from it
makeRound(m, g, front) ==
    Bind(pick(g, front), LAMBDA p :
        LET x  == p.ret[1]
            y  == p.ret[2]
            d  == dudv(opposite(p.ret[3]))
        IN  IF look(m, x, y) = JsFalse
            THEN Bind(expand([m EXCEPT !.data[y + d[2] + 1][x + d[1] + 1] = TRUE],
                             p.array, x, y),
                      LAMBDA e : [maze |-> e.maze, rng |-> p.self, frontier |-> e.frontier])
            ELSE [maze |-> m, rng |-> p.self, frontier |-> p.array])

\* new Maze(X, Y, RNG, isWall): all cells false
NewMaze(X, Y, RNG, isWall) ==
    [X |-> X, Y |-> Y, RNG |-> RNG, isWall |-> isWall,
     data |-> Build(Y, LAMBDA yy : Build(X, LAMBDA xx : FALSE))]

----------------------------------------------------------------------------
(* The M64 operations applied to sample operands                           *)

MaxSmall == 1

\* halves near 0 and near 2^32 - 1, so that sums with and without carry occur
SampleHalves == {FromNat(n) : n \in 0..MaxSmall}
                    \cup {Bits32 \ FromNat(n) : n \in 0..MaxSmall}

SampleWide == SampleHalves \X SampleHalves

M64Idle == wa = <<{}, {}>> /\ wb = <<{}, {}>> /\ wl = 0 /\ wr = <<>> /\ wop = "none"

NoRecover == [val |-> <<>>, of |-> 0, at |-> 0]

PrngIdle == rngs = <<>> /\ outs = <<>> /\ base = <<>> /\ recovered = NoRecover

PickIdle == arr = <<>> /\ arrProps = {} /\ items = <<>> /\ picked = <<>>

NoCall == [op |-> "none", a |-> 0, b |-> 0, n |-> 0]

MazeIdle ==
    /\ maze = <<>> /\ mpc = "idle" /\ mx = 0 /\ my = 0 /\ frontier = <<>>
    /\ before = <<>> /\ last = NoCall /\ parts = <<>>

GenIdle == gpc = "idle" /\ gargs = <<>> /\ cross = <<>> /\ results = <<>>

InitM64 ==
    /\ wa \in SampleWide
    /\ wb \in SampleWide
    /\ wl = 0
    /\ wr = <<>>
    /\ wop = "none"
    /\ PrngIdle /\ PickIdle /\ MazeIdle /\ GenIdle

CallAdd64 ==
    /\ wop = "none"
    /\ wr' = add64(wa, wb)
    /\ wop' = "add64"
    /\ UNCHANGED <<wa, wb, wl, NotM64>>

CallXor64 ==
    /\ wop = "none"
    /\ wr' = xor64(wa, wb)
    /\ wop' = "xor64"
    /\ UNCHANGED <<wa, wb, wl, NotM64>>

\* the amounts rand64 shifts by, and 0
ShiftAmounts == {-23, 0, 17, 26}

\* the class of the object shift64 returns: an array literal in the two
\* branches that shift, the arguments object otherwise
shift64Class(l) == IF l > 0 \/ l < 0 THEN "Array" ELSE "Arguments"

\* M64.shift64(wa, l): the object returned, by its class and its elements
CallShift64 ==
    /\ wop = "none"
    /\ \E l \in ShiftAmounts :
          /\ wl' = l
          /\ wr' = [class |-> shift64Class(l), elements |-> shift64(wa, l)]
    /\ wop' = "shift64"
    /\ UNCHANGED <<wa, wb, NotM64>>

NextM64 == CallAdd64 \/ CallXor64 \/ CallShift64

SpecM64 == InitM64 /\ [][NextM64]_vars

\* the 64-bit value of a WideWord [H, L]: bit i of L is bit i, bit i of H is bit 32 + i
Value64(a) == a[2] \cup {i + 32 : i \in a[1]}

\* C9: add64(a, b) is (a + b) mod 2^64: the carry out of the low half reaches
\* the high half.
C9_Add64IsSumMod64 ==
    wop = "add64" => Value64(wr) = AddBits(Value64(wa), Value64(wb), 64)

----------------------------------------------------------------------------
(* PRNG objects: draws, recover, the constructor, copy                     *)

MaxSeedLen == 2
MaxObjects == 2
MaxDraws == 2

\* the seed strings "", "a", "aa", ...
SeedStrings == {[i \in 1..n |-> 97] : n \in 0..MaxSeedLen}

ZeroWide == <<{}, {}>>
OnesWide == <<Bits32, Bits32>>

\* generators as PRNG.from(seed) builds them, and as new PRNG(s0, s1) builds
\* them from the extreme words
InitialGenerators ==
    {from(seed) : seed \in SeedStrings}
        \cup {constructor(a, b) : a \in {ZeroWide, OnesWide}, b \in {ZeroWide, OnesWide}}

Fresh == [kind |-> "new", of |-> 0, at |-> 0]

InitPRNG ==
    /\ rngs \in {<<g>> : g \in InitialGenerators}
    /\ outs = <<<<>>>>
    /\ base = <<Fresh>>
    /\ recovered = NoRecover
    /\ M64Idle /\ PickIdle /\ MazeIdle /\ GenIdle

\* a rand64 call whose new state also shows in the copies of object i and in
\* the object it was copied from
Rand64CallAliased(i) ==
    /\ Len(outs[i]) < MaxDraws
    /\ \E r \in {rand64(rngs[i])} :
          /\ rngs' = [j \in 1..Len(rngs) |->
                        IF j = i \/ (base[j].kind = "copy" /\ base[j].of = i)
                                 \/ (base[i].kind = "copy" /\ base[i].of = j)
                        THEN r.self ELSE rngs[j]]
          /\ outs' = [outs EXCEPT ![i] = Append(@, r.ret)]
    /\ UNCHANGED <<base, recovered, NotPrng>>

\* g.rand64() on object i
Rand64Call(i) ==
    /\ Len(outs[i]) < MaxDraws
    /\ \E r \in {rand64(rngs[i])} :
          /\ rngs' = [rngs EXCEPT ![i] = r.self]
          /\ outs' = [outs EXCEPT ![i] = Append(@, r.ret)]
    /\ UNCHANGED <<base, recovered, NotPrng>>

\* g.recover() on object i
RecoverCall(i) ==
    /\ recovered' = [val |-> recover(rngs[i]), of |-> i, at |-> Len(outs[i])]
    /\ recovered' # recovered
    /\ UNCHANGED <<rngs, outs, base, NotPrng>>

\* new PRNG(...state) with the pair the last recover() returned
FromStateCall ==
    /\ recovered # NoRecover
    /\ Len(rngs) < MaxObjects
    /\ rngs' = Append(rngs, constructor(recovered.val[1], recovered.val[2]))
    /\ outs' = Append(outs, <<>>)
    /\ base' = Append(base, [kind |-> "fromState", of |-> recovered.of, at |-> recovered.at])
    /\ UNCHANGED <<recovered, NotPrng>>

\* g.copy() on object i
CopyCall(i) ==
    /\ Len(rngs) < MaxObjects
    /\ rngs' = Append(rngs, copy(rngs[i]))
    /\ outs' = Append(outs, <<>>)
    /\ base' = Append(base, [kind |-> "copy", of |-> i, at |-> Len(outs[i])])
    /\ UNCHANGED <<recovered, NotPrng>>

NextPRNG ==
    \/ \E i \in 1..Len(rngs) : Rand64Call(i)
    \/ \E i \in 1..Len(rngs) : RecoverCall(i)
    \/ FromStateCall
    \/ \E i \in 1..Len(rngs) : CopyCall(i)

SpecPRNG == InitPRNG /\ [][NextPRNG]_vars

\* C10: a generator built by the constructor from the pair recover() returned
\* produces the outputs the recovered generator produces from that point on and,
\* after equally many draws, has the same state; and as long as the recovered
\* generator has not drawn again, its state is still the pair returned.
C10_RecoverFromStateRoundTrip ==
    /\ \A j \in 1..Len(rngs) :
          base[j].kind = "fromState" =>
            LET i == base[j].of
                k == base[j].at
            IN  /\ \A n \in 1..Len(outs[j]) :
                      k + n <= Len(outs[i]) => outs[j][n] = outs[i][k + n]
                /\ Len(outs[j]) + k = Len(outs[i]) => rngs[j] = rngs[i]
    /\ (recovered # NoRecover /\ Len(outs[recovered.of]) = recovered.at)
          => <<rngs[recovered.of].s0, rngs[recovered.of].s1>> = recovered.val

\* a rebuilt generator and its original have both drawn, the original after the
\* recover() call, and the state is not the all-zero fixed point
C10_Witness ==
    \E j \in 1..Len(rngs) :
        /\ base[j].kind = "fromState"
        /\ Len(outs[j]) = MaxDraws
        /\ Len(outs[base[j].of]) = base[j].at + MaxDraws
        /\ outs[j][1] # outs[j][2]

\* object j is a copy that has not drawn, of an object that has not drawn since
JustCopied(j) ==
    /\ base[j].kind = "copy"
    /\ outs[j] = <<>>
    /\ Len(outs[base[j].of]) = base[j].at

\* C11: right after copy() the copy has the state of the original, and a step
\* in which an object makes no draw leaves that object's state (s0, s1) as it
\* was: draws on a copy do not reach the original, nor draws on the original
\* the copy.
C11_CopyIndependent ==
    /\ [](\A j \in 1..Len(rngs) : JustCopied(j) => rngs[j] = rngs[base[j].of])
    /\ [][\A i \in 1..Len(rngs) : outs'[i] = outs[i] => rngs'[i] = rngs[i]]_vars

\* a copy and its original have both drawn since the copy was made, and their
\* states differ
C11_Witness ==
    \E j \in 1..Len(rngs) :
        /\ base[j].kind = "copy"
        /\ Len(outs[j]) = MaxDraws
        /\ Len(outs[base[j].of]) > base[j].at
        /\ rngs[j] # rngs[base[j].of]

\* 64-bit words as subsets of 0..63: the logical shifts and the wide sum
Bits64 == 0..63
Shr64(v, n) == {i - n : i \in v} \cap Bits64
Shl64(v, n) == {i + n : i \in v} \cap Bits64

\* object i draws in this step
Draws(i) == i <= Len(outs') /\ Len(outs'[i]) = Len(outs[i]) + 1

\* the state and the output after a draw on object i are those of the step
\* whose new s1 is n1 and whose output is ret, on the state (s0, s1) before it
StepIs(i, n1, ret) ==
    /\ Value64(rngs'[i].s0) = Value64(rngs[i].s1)
    /\ Value64(rngs'[i].s1) = n1
    /\ Value64(outs'[i][Len(outs'[i])]) = ret

\* C18 as stated: x = s0 xor (s0 >> 23), newS1 = x xor s1 xor (x << 17) xor
\* (s1 << 26), newS0 = s1, and the output is the wide sum of newS1 and s1.
C18_StepAsStated ==
    [][\A i \in 1..Len(rngs) : Draws(i) =>
          LET s0 == Value64(rngs[i].s0)
              s1 == Value64(rngs[i].s1)
              x  == Xor(s0, Shr64(s0, 23))
              n1 == Xor(Xor(x, s1), Xor(Shl64(x, 17), Shl64(s1, 26)))
          IN  StepIs(i, n1, AddBits(n1, s1, 64))]_vars

\* the shifts and the sum as the halves are combined: a left shift by n sets
\* bits 32 + n .. 63 when bit 31 is set; a right shift by n sets bits
\* 64 - n .. 63 when bit 63 is set and bits 32 - n .. 31 when bit 31 is set;
\* the sum adds each half modulo 2^32
LeftHalves(v, n) == Shl64(v, n) \cup (IF 31 \in v THEN (32 + n)..63 ELSE {})
RightHalves(v, n) ==
    Shr64(v, n) \cup (IF 63 \in v THEN (64 - n)..63 ELSE {})
                \cup (IF 31 \in v THEN (32 - n)..31 ELSE {})
SumHalves(a, b) ==
    AddBits(a \cap Bits32, b \cap Bits32, 32)
        \cup {i + 32 : i \in AddBits({j - 32 : j \in a \ Bits32}, {j - 32 : j \in b \ Bits32}, 32)}

\* what a step does compute: x = s0 xor (s0 shifted left by 23), newS1 = x xor
\* s1 xor (x shifted right by 17) xor (s1 shifted right by 26), newS0 = s1, and
\* the output is the sum of newS1 and s1, the shifts and the sum taken half by
\* half.
Rand64StepAsCoded ==
    [][\A i \in 1..Len(rngs) : Draws(i) =>
          LET s0 == Value64(rngs[i].s0)
              s1 == Value64(rngs[i].s1)
              x  == Xor(s0, LeftHalves(s0, 23))
              n1 == Xor(Xor(x, s1), Xor(RightHalves(x, 17), RightHalves(s1, 26)))
          IN  StepIs(i, n1, SumHalves(n1, s1))]_vars

\* C14: shift64(a, 0) returns a WideWord equal to a.
C14_ShiftByZeroIsNoOp ==
    wop = "shift64" /\ wl = 0 => wr.class = "Array" /\ wr.elements = wa

----------------------------------------------------------------------------
(* pick on an array of distinct elements                                   *)

MaxLen == 4

\* N distinct elements
Elements(n) == [k \in 1..n |-> [id |-> k]]

InitPick ==
    /\ rngs \in {<<g>> : g \in InitialGenerators}
    /\ outs = <<<<>>>>
    /\ base = <<Fresh>>
    /\ recovered = NoRecover
    /\ \E n \in 0..MaxLen : arr = Elements(n) /\ items = Elements(n)
    /\ arrProps = {}
    /\ picked = <<>>
    /\ M64Idle /\ MazeIdle /\ GenIdle

\* RNG.pick(arr), at most once more than there are elements
PickCall ==
    /\ Len(picked) <= Len(items)
    /\ \E r \in {pick(rngs[1], arr)} :
          /\ rngs' = [rngs EXCEPT ![1] = r.self]
          /\ arr' = r.array
          /\ arrProps' = arrProps \cup r.props
          /\ picked' = Append(picked, r.ret)
    /\ UNCHANGED <<outs, base, recovered, items, NotPick>>

\* a draw between two picks
PickDraw == Rand64Call(1)

NextPick == PickCall \/ PickDraw

SpecPick == InitPick /\ [][NextPick]_vars

Range(seq) == {seq[k] : k \in 1..Len(seq)}

\* C7: over the first N calls on N distinct elements each call shortens the
\* array by one, no element is returned twice, every element is either returned
\* or still in the array, and after the N-th call the array is empty and every
\* element has been returned.
C7_PickExhaustive ==
    LET n == Len(items)
        k == Len(picked)
    IN  k <= n =>
          /\ Len(arr) = n - k
          /\ Cardinality(Range(picked)) = k
          /\ Range(picked) \cap Range(arr) = {}
          /\ Range(picked) \cup Range(arr) = Range(items)
          /\ (k = n => arr = <<>> /\ Range(picked) = Range(items))

\* all of MaxLen elements picked, the first pick not being the last element
C7_Witness ==
    /\ Len(items) = MaxLen
    /\ Len(picked) = MaxLen
    /\ picked[1] # items[MaxLen]
    /\ arr = <<>>

\* C13: pick on an array of length zero returns no value, not even undefined,
\* and leaves the array as it was, without a new property.
C13_PickOnEmptyFails ==
    /\ \A k \in 1..Len(picked) : "undefined" \notin DOMAIN picked[k]
    /\ arrProps = {}

----------------------------------------------------------------------------
(* The Maze methods called on one Maze object, in any order                *)

MaxSide == 5
MaxRound == 2
MaxCalls == 2

MaxStart == 2

MaxDiv == 2

\* the sizes of the grids, <<X, Y>>
Sizes == {<<MaxSide, MaxSide>>, <<MaxSide - 1, MaxSide>>}

\* the generators a Maze is given: seeded ones, and the one whose state is zero
MazeGenerators == {from(seed) : seed \in SeedStrings} \cup {constructor(ZeroWide, ZeroWide)}

\* the rates, in halves, and the constant weights loss is called with
Rates2 == {-2, -1, 0, 1, 2}
Weights == {0, 1}

DefaultIsEdge(X, Y) == [kind |-> "isEdge", X |-> X, Y |-> Y]

ObjectRef(n) == [ref |-> n]

\* a generator and new Maze(X, Y, RNG)
InitMaze ==
    /\ rngs \in {<<g>> : g \in MazeGenerators}
    /\ outs = <<<<>>>>
    /\ base = <<Fresh>>
    /\ recovered = NoRecover
    /\ \E size \in Sizes :
          maze = NewMaze(size[1], size[2], ObjectRef(1), DefaultIsEdge(size[1], size[2]))
    /\ mpc = "idle" /\ mx = 0 /\ my = 0 /\ frontier = <<>>
    /\ before = <<>>
    /\ last = [op |-> "new", a |-> 0, b |-> 0, n |-> 0]
    /\ parts = <<>>
    /\ M64Idle /\ PickIdle /\ GenIdle

\* the call being made, the n-th on maze
Called(op, a, b) == [op |-> op, a |-> a, b |-> b, n |-> last.n + 1]

MayCall == mpc = "idle" /\ gpc = "idle" /\ last.n < MaxCalls

\* maze.make(x, y), the first call on a new Maze
MakeCall ==
    /\ MayCall
    /\ last.op = "new"
    /\ \E x \in 0..MaxStart, y \in 0..MaxStart :
          /\ mx' = x /\ my' = y
          /\ last' = Called("make", x, y)
    /\ mpc' = "start"
    /\ frontier' = <<>>
    /\ before' = maze.data
    /\ UNCHANGED <<maze, rngs, parts, NotMaze, GenVars>>

\* maze.make(): x and y default to rand32() % X and rand32() % Y
MakeCallDefault ==
    /\ MayCall
    /\ last.op = "new"
    /\ \E rx \in {rand32(rngs[maze.RNG.ref])} : \E ry \in {rand32(rx.self)} :
          /\ mx' = ModN(rx.ret, maze.X)
          /\ my' = ModN(ry.ret, maze.Y)
          /\ rngs' = [rngs EXCEPT ![maze.RNG.ref] = ry.self]
    /\ last' = Called("make", -1, -1)
    /\ mpc' = "start"
    /\ frontier' = <<>>
    /\ before' = maze.data
    /\ UNCHANGED <<maze, parts, NotMaze, GenVars>>

\* while (this.isWall(x, y)) [x, y] = [rand32() % X, rand32() % Y]
MakeResample ==
    /\ mpc = "start"
    /\ IsWallAt(maze.isWall, mx, my)
    /\ \E rx \in {rand32(rngs[maze.RNG.ref])} : \E ry \in {rand32(rx.self)} :
          /\ mx' = ModN(rx.ret, maze.X)
          /\ my' = ModN(ry.ret, maze.Y)
          /\ rngs' = [rngs EXCEPT ![maze.RNG.ref] = ry.self]
    /\ UNCHANGED <<maze, mpc, frontier, before, last, parts, NotMaze, GenVars>>

\* expand(x, y) from the start cell; make returns when the frontier is empty
MakeExpand ==
    /\ mpc = "start"
    /\ ~IsWallAt(maze.isWall, mx, my)
    /\ \E e \in {expand(maze, frontier, mx, my)} :
          /\ maze' = e.maze
          /\ frontier' = e.frontier
          /\ mpc' = IF e.frontier = <<>> THEN "idle" ELSE "carve"
    /\ UNCHANGED <<rngs, mx, my, before, last, parts, NotMaze, GenVars>>

\* one round of while (frontier.length > 0); make returns when the frontier is empty
MakeRound ==
    /\ mpc = "carve"
    /\ \E r \in {makeRound(maze, rngs[maze.RNG.ref], frontier)} :
          /\ maze' = r.maze
          /\ rngs' = [rngs EXCEPT ![maze.RNG.ref] = r.rng]
          /\ frontier' = r.frontier
          /\ mpc' = IF r.frontier = <<>> THEN "idle" ELSE "carve"
    /\ UNCHANGED <<mx, my, before, last, parts, NotMaze, GenVars>>

\* maze.trim(round)
TrimCall ==
    /\ MayCall
    /\ \E round \in 0..MaxRound :
          /\ maze' = trim(maze, round)
          /\ last' = Called("trim", round, 0)
    /\ before' = maze.data
    /\ UNCHANGED <<rngs, mpc, mx, my, frontier, parts, NotMaze, GenVars>>

\* maze.grow(round)
GrowCall ==
    /\ MayCall
    /\ \E round \in 0..MaxRound :
          /\ maze' = grow(maze, round)
          /\ last' = Called("grow", round, 0)
    /\ before' = maze.data
    /\ UNCHANGED <<rngs, mpc, mx, my, frontier, parts, NotMaze, GenVars>>

\* maze.loss(rate2 / 2, () => f)
LossCall ==
    /\ MayCall
    /\ \E rate2 \in Rates2, f \in Weights :
          \E r \in {loss(maze, rngs[maze.RNG.ref], rate2, f)} :
              /\ maze' = r.maze
              /\ rngs' = [rngs EXCEPT ![maze.RNG.ref] = r.rng]
              /\ last' = Called("loss", rate2, f)
    /\ before' = maze.data
    /\ UNCHANGED <<mpc, mx, my, frontier, parts, NotMaze, GenVars>>

\* maze.split(divX, divY)
SplitCall ==
    /\ MayCall
    /\ \E divX \in 1..MaxDiv, divY \in 1..MaxDiv :
          /\ parts' = split(maze, divX, divY)
          /\ last' = Called("split", divX, divY)
    /\ before' = maze.data
    /\ UNCHANGED <<maze, rngs, mpc, mx, my, frontier, NotMaze, GenVars>>

NextMaze ==
    \/ MakeCall \/ MakeCallDefault \/ MakeResample \/ MakeExpand \/ MakeRound
    \/ TrimCall \/ GrowCall \/ LossCall \/ SplitCall

SpecMaze == InitMaze /\ [][NextMaze]_vars

\* the cells of a data array, as <<x, y>>
Cells(data) == {<<x, y>> : x \in 0..(Len(data[1]) - 1), y \in 0..(Len(data) - 1)}

\* the open cells of a data array
Open(data) == {c \in Cells(data) : data[c[2] + 1][c[1] + 1]}

\* two cells one cardinal step apart
Adjacent(c, d) ==
    \/ c[1] = d[1] /\ (c[2] - d[2] = 1 \/ d[2] - c[2] = 1)
    \/ c[2] = d[2] /\ (c[1] - d[1] = 1 \/ d[1] - c[1] = 1)

\* the pairs of adjacent cells of a set
Edges(cells) == {e \in SUBSET cells : \E c, d \in e : e = {c, d} /\ Adjacent(c, d)}

RECURSIVE Reach(_, _)
\* the cells of a set reachable from the cells of seen by cardinal steps in the set
Reach(cells, seen) ==
    LET more == {c \in cells \ seen : \E d \in seen : Adjacent(c, d)}
    IN  IF more = {} THEN seen ELSE Reach(cells, seen \cup more)

\* a set of cells is a tree under cardinal adjacency: connected, and one edge
\* fewer than cells
IsTree(cells) ==
    /\ \A c \in cells : Reach(cells, {c}) = cells
    /\ cells # {} => Cardinality(Edges(cells)) = Cardinality(cells) - 1

AllClosed(data) == Open(data) = {}

\* make has returned, and it was called on the new Maze
MadeOnNew == last.op = "make" /\ last.n = 1 /\ mpc = "idle"

\* C1: when make returns from a call on a newly constructed, all-closed grid,
\* the open cells are connected by open cardinal steps and contain no cycle,
\* whatever the start cell and the draws.
C1_MakeSpanningTree ==
    MadeOnNew => AllClosed(before) /\ Open(maze.data) # {} /\ IsTree(Open(maze.data))

\* make has returned with four rooms and the three cells between them open
C1_Witness == MadeOnNew /\ Cardinality(Open(maze.data)) = 7

\* the last call on maze was op, and it has returned
Returned(op) == last.op = op /\ mpc = "idle"

\* C5: a cell that is closed before trim(N) is closed after it, for every N >= 0.
C5_TrimNeverOpens ==
    Returned("trim") => Open(maze.data) \subseteq Open(before)

\* trim has closed an open cell, next to cells that were closed before
C5_Witness ==
    /\ Returned("trim") /\ last.a >= 1
    /\ Open(maze.data) # Open(before)
    /\ Open(maze.data) # {}

\* C6: a cell that is open before grow(N) is open after it, for every N >= 0.
C6_GrowNeverCloses ==
    Returned("grow") => Open(before) \subseteq Open(maze.data)

\* grow has opened a closed cell of a grid that had open cells
C6_Witness ==
    /\ Returned("grow") /\ last.a >= 1
    /\ Open(before) # {}
    /\ Open(maze.data) # Open(before)

\* the divisors of the last split divide the sides of the grid
Divisible == maze.X % last.a = 0 /\ maze.Y % last.b = 0

\* C3: split(dX, dY) on a W x H grid with dX dividing W and dY dividing H returns
\* H / dY rows of W / dX sub-grids, each dX wide and dY high, and the cell (x, y)
\* of the parent is the cell (x % dX, y % dY) of the sub-grid at column x / dX of
\* row y / dY.
C3_SplitReassembles ==
    Returned("split") /\ Divisible =>
        /\ Len(parts) = maze.Y \div last.b
        /\ \A j \in 1..Len(parts) :
              /\ Len(parts[j]) = maze.X \div last.a
              /\ \A i \in 1..Len(parts[j]) :
                    /\ parts[j][i].X = last.a /\ parts[j][i].Y = last.b
                    /\ Len(parts[j][i].data) = last.b
                    /\ \A k \in 1..last.b : Len(parts[j][i].data[k]) = last.a
        /\ \A c \in Cells(maze.data) :
              maze.data[c[2] + 1][c[1] + 1] =
                  parts[(c[2] \div last.b) + 1][(c[1] \div last.a) + 1]
                      .data[(c[2] % last.b) + 1][(c[1] % last.a) + 1]

\* a grid with open cells has been split in two columns
C3_Witness ==
    /\ Returned("split") /\ Divisible
    /\ last.a = 2 /\ last.b = 1
    /\ Open(maze.data) # {}

\* the s0 and s1 of what a Maze holds as RNG: a function object has neither
StateOf(r) ==
    IF "function" \in DOMAIN r THEN [s0 |-> Undefined, s1 |-> Undefined]
    ELSE rngs[r.ref]

\* C4: every sub-grid split returned holds a PRNG whose state is the state of
\* the parent's PRNG at the time of the split.
C4_SubGridOwnsClone ==
    Returned("split") =>
        \A j \in 1..Len(parts) : \A i \in 1..Len(parts[j]) :
            /\ "ref" \in DOMAIN parts[j][i].RNG
            /\ StateOf(parts[j][i].RNG) = StateOf(maze.RNG)

\* the closed cells of a data array
Closed(data) == Cells(data) \ Open(data)

\* C17: make terminates once its start cell is no forced wall: the loop runs
\* exactly while the frontier is not empty, make returns with the frontier
\* empty, and every round of the loop either opens a closed cell or shortens
\* the frontier without closing any cell, so on a finite grid the rounds are
\* finitely many whatever the picks are.
C17_MakeTerminates ==
    /\ [](mpc = "carve" => frontier # <<>>)
    /\ [](Returned("make") => frontier = <<>>)
    /\ [][mpc = "start" /\ ~IsWallAt(maze.isWall, mx, my) => mpc' \in {"carve", "idle"}]_vars
    /\ [][mpc = "carve" =>
            /\ mpc' \in {"carve", "idle"}
            /\ \/ Cardinality(Closed(maze'.data)) < Cardinality(Closed(maze.data))
               \/ /\ Closed(maze'.data) = Closed(maze.data)
                  /\ Len(frontier') < Len(frontier)]_vars

\* make has returned with an empty frontier after rounds that opened cells
C17_Witness ==
    /\ Returned("make") /\ frontier = <<>>
    /\ Cardinality(Open(maze.data)) >= 3

\* the four cardinal neighbours of a cell
Neighbours(c) == {<<c[1], c[2] - 1>>, <<c[1] + 1, c[2]>>, <<c[1], c[2] + 1>>, <<c[1] - 1, c[2]>>}

\* the cells that are forced walls of maze
Forced(c) == IsWallAt(maze.isWall, c[1], c[2])

\* the cells open after one round of trim on the set of open cells: the open
\* cells whose neighbours weigh at least 2, an open neighbour that is no forced
\* wall weighing 1 and a forced wall 0.3
TrimmedOnce(open) ==
    {c \in open :
        10 * Cardinality({n \in Neighbours(c) : ~Forced(n) /\ n \in open})
            + 3 * Cardinality({n \in Neighbours(c) : Forced(n)}) >= 20}

RECURSIVE Trimmed(_, _)
Trimmed(open, rounds) ==
    IF rounds = 0 THEN open ELSE Trimmed(TrimmedOnce(open), rounds - 1)

\* C15: after a round of trim a cell is open exactly if it was open before the
\* round and its four neighbours, all as they were before the round, weigh at
\* least 2; and so for every further round.
C15_TrimReadsPreRound ==
    Returned("trim") => Open(maze.data) = Trimmed(Open(before), last.a)

\* one round of trim has closed a cell next to a cell it has kept open
C15_Witness ==
    /\ Returned("trim") /\ last.a = 1
    /\ \E c \in Open(maze.data) : \E n \in Neighbours(c) :
          n \in Open(before) /\ n \notin Open(maze.data)

\* C12: split with a divisor that does not divide the side it cuts returns no
\* partition.
C12_SplitRejectsIndivisible ==
    Returned("split") /\ ~Divisible => parts = <<>>

\* C8: loss(rate, () => weight) with rate > 0 and weight >= 0 leaves every cell
\* closed that was closed before it.
C8_LossOnlyRemoves ==
    Returned("loss") /\ last.a > 0 /\ last.b >= 0 =>
        Open(maze.data) \subseteq Open(before)

\* C19: forced-wall cells stay closed in the stored array: on a new grid and
\* after a first pass make, trim, grow or loss with a rate >= 0, no cell for
\* which the wall predicate is true is open in the array.
C19_ForcedWallsStayClosed ==
    (mpc = "idle" /\ last.n <= 1 /\ last.op \in {"new", "make", "trim", "grow", "loss"}
                  /\ ~(last.op = "loss" /\ last.a < 0)) =>
        \A c \in Open(maze.data) : ~Forced(c)

\* C20: loss(0, weightFn) leaves the stored array as it was.
C20_LossZeroChangesNothing ==
    Returned("loss") /\ last.a = 0 => maze.data = before

----------------------------------------------------------------------------
(* Maze.generate called twice with the same arguments, each call on a      *)
(* generator made by PRNG.from of the same seed                            *)

MaxN == 2
MaxRoom == 4
MaxRuns == 2

\* the loss rates generate is called with, in halves
GenRates1 == {0, 1}
GenRates2 == {-1, 1}

GenArgs ==
    [nX : 1..MaxN, nY : 1..MaxN, X : {MaxRoom - 1, MaxRoom}, Y : {MaxRoom},
     seed : SeedStrings, loss1 : GenRates1, loss2 : GenRates2]

InitGen ==
    /\ gargs \in GenArgs
    /\ gpc = "idle" /\ cross = <<>> /\ results = <<>>
    /\ M64Idle /\ PrngIdle /\ PickIdle /\ MazeIdle

\* a second call that goes on with the generator of the first
GenCallShared ==
    /\ gpc = "idle" /\ Len(results) < MaxRuns
    /\ rngs' = IF rngs = <<>> THEN <<from(gargs.seed)>> ELSE rngs
    /\ maze' = NewMaze(gargs.nX * 2 + 1, gargs.nY * 2 + 1, ObjectRef(1),
                       DefaultIsEdge(gargs.nX * 2 + 1, gargs.nY * 2 + 1))
    /\ mx' = 1 /\ my' = 1 /\ frontier' = <<>> /\ mpc' = "start"
    /\ gpc' = "cross"
    /\ UNCHANGED <<before, last, parts, gargs, cross, results, NotMaze>>

\* Maze.generate(nX, nY, X, Y, PRNG.from(seed), loss1, loss2) up to the call
\* cross.make(1, 1)
GenCall ==
    /\ gpc = "idle" /\ Len(results) < MaxRuns
    /\ rngs' = Append(rngs, from(gargs.seed))
    /\ maze' = NewMaze(gargs.nX * 2 + 1, gargs.nY * 2 + 1, ObjectRef(Len(rngs) + 1),
                       DefaultIsEdge(gargs.nX * 2 + 1, gargs.nY * 2 + 1))
    /\ mx' = 1 /\ my' = 1 /\ frontier' = <<>> /\ mpc' = "start"
    /\ gpc' = "cross"
    /\ UNCHANGED <<before, last, parts, gargs, cross, results, NotMaze>>

\* the closure isWall of generate
GenIsWall(crossData) ==
    [kind |-> "isWall", X |-> gargs.X, Y |-> gargs.Y,
     nX |-> gargs.nX, nY |-> gargs.nY, cross |-> crossData]

\* cross.make(1, 1) has returned: .loss(loss1, () => 1), new Maze(nX * X, nY * Y,
\* RNG, isWall), and terrain.make() up to its loop
GenTerrain ==
    /\ gpc = "cross" /\ mpc = "idle"
    /\ \E l \in {loss(maze, rngs[maze.RNG.ref], gargs.loss1, 1)} :
       \E rx \in {rand32(l.rng)} : \E ry \in {rand32(rx.self)} :
          /\ cross' = l.maze
          /\ maze' = NewMaze(gargs.nX * gargs.X, gargs.nY * gargs.Y, maze.RNG,
                             GenIsWall(l.maze.data))
          /\ mx' = ModN(rx.ret, gargs.nX * gargs.X)
          /\ my' = ModN(ry.ret, gargs.nY * gargs.Y)
          /\ rngs' = [rngs EXCEPT ![maze.RNG.ref] = ry.self]
    /\ frontier' = <<>> /\ mpc' = "start"
    /\ gpc' = "terrain"
    /\ UNCHANGED <<before, last, parts, gargs, results, NotMaze>>

\* terrain.make() has returned: .trim(5).loss(loss2, () => 1).grow(7).trim(5) and
\* return terrain.split(X, Y)
GenReturn ==
    /\ gpc = "terrain" /\ mpc = "idle"
    /\ \E l \in {loss(trim(maze, 5), rngs[maze.RNG.ref], gargs.loss2, 1)} :
       \E t \in {trim(grow(l.maze, 7), 5)} :
          /\ maze' = t
          /\ rngs' = [rngs EXCEPT ![maze.RNG.ref] = l.rng]
          /\ results' = Append(results, split(t, gargs.X, gargs.Y))
    /\ gpc' = "idle"
    /\ UNCHANGED <<mpc, mx, my, frontier, before, last, parts, gargs, cross, NotMaze>>

NextGen ==
    \/ GenCall \/ MakeResample \/ MakeExpand \/ MakeRound \/ GenTerrain \/ GenReturn

SpecGen == InitGen /\ [][NextGen]_vars

CoarseClosed(wx, wy) ==
    \/ isEdge(gargs.nX * 2 + 1, gargs.nY * 2 + 1, wx, wy)
    \/ ~cross.data[wy + 1][wx + 1]

\* the fine cell (x, y) lies on a strip between rooms whose coarse cell is closed:
\* on a corner of its room, or on a side of its room whose passage is closed
OnClosedStrip(x, y) ==
    LET rx == x % gargs.X
        ry == y % gargs.Y
        onX == rx = 0 \/ rx = gargs.X - 1
        onY == ry = 0 \/ ry = gargs.Y - 1
        wx == (x \div gargs.X) * 2 + (IF ~onX THEN 1 ELSE IF rx = 0 THEN 0 ELSE 2)
        wy == (y \div gargs.Y) * 2 + (IF ~onY THEN 1 ELSE IF ry = 0 THEN 0 ELSE 2)
    IN  /\ onX \/ onY
        /\ (onX /\ onY) \/ CoarseClosed(wx, wy)

\* C16: in generate, a cell of the fine grid inside the overall bounds is a
\* forced wall exactly if it lies on a strip between rooms whose coarse cell is
\* closed, whatever the room size X x Y.
C16_WallIffClosedStrip ==
    gpc = "terrain" =>
        \A x \in 0..(maze.X - 1), y \in 0..(maze.Y - 1) :
            ~isEdge(maze.X, maze.Y, x, y) =>
                (IsWallAt(maze.isWall, x, y) <=> OnClosedStrip(x, y))

====
